---- MODULE Spec2Model ----
(***************************************************************************)
(* Model of source/image-handler/index.js: the Lambda entry point of the   *)
(* serverless image handler.  One process holds the module-level secret    *)
(* (this.secretKey, i.e. module.exports.secretKey, shared by the two arrow *)
(* functions handler and ensureSecretKeyLoaded) and runs handler           *)
(* activations.  Every `await` of the source is a suspension point: the    *)
(* step up to an await is one action, the continuation after it another.   *)
(***************************************************************************)
EXTENDS Integers, Sequences, FiniteSets, TLC

\* ------------------------------------------------------------------ bounds
\* Handler activations the host may run at the same time in one process.
MaxConcurrency == 2
\* Events delivered to the process in one behaviour.
MaxInvocations == 2
\* Longest all-whitespace value tried for the fallback bucket / key.
MaxWs == 2

Slots == 1..MaxConcurrency

\* ------------------------------------------------------------- JS values
\* JavaScript `undefined`, and the boolean `true` stored as a header value.
Undefined == "<undefined>"
JsTrue == "<true>"

\* !!x for a string-or-undefined value (index.js:123).
Truthy(x) == x # Undefined /\ x # ""

\* An environment variable whose value is matched against /\s/: either unset
\* or a sequence of characters.
Unset == [set |-> FALSE, val |-> <<>>]
EnvStr(s) == [set |-> TRUE, val |-> s]
WsChars == {" "}
IsWs(c) == c \in WsChars

RECURSIVE Spaces(_)
Spaces(n) == IF n = 0 THEN <<>> ELSE <<" ">> \o Spaces(n - 1)

\* String.prototype.replace(/\s/, ''): the pattern has no g flag, so only the
\* FIRST whitespace character is removed (index.js:53, 55).
RECURSIVE ReplaceFirstWs(_)
ReplaceFirstWs(s) ==
    IF s = <<>> THEN <<>>
    ELSE IF IsWs(Head(s)) THEN Tail(s)
    ELSE <<Head(s)>> \o ReplaceFirstWs(Tail(s))

\* `process.env.X && process.env.X.replace(/\s/, '') !== ''`
EnvNonBlank(v) == v.set /\ v.val # <<>> /\ ReplaceFirstWs(v.val) # <<>>

\* ------------------------------------------------------------ header maps
EmptyMap == [k \in {} |-> Undefined]
\* headers[name] = value
Put(h, name, value) ==
    [k \in DOMAIN h \cup {name} |-> IF k = name THEN value ELSE h[k]]
\* for (let key in custom) headers[key] = custom[key]
Overlay(h, custom) ==
    [k \in DOMAIN h \cup DOMAIN custom |->
        IF k \in DOMAIN custom THEN custom[k] ELSE h[k]]

\* ------------------------------------------------------------- the inputs
\* Inbound events: only requestContext matters to this layer.
Events == {"elb", "apigw", "noContext"}
LeanEvents == {"elb"}

\* Values the secret store may return.  SSM parameter values are non-empty.
SecretValues == {"k1", "k2"}
LeanSecretValues == SecretValues

\* Processed Requests the parser may return.
MetaVariants ==
    { [ContentType |-> "image/png", Expires |-> Undefined,
       LastModified |-> Undefined, CacheControl |-> "max-age=31536000,public"],
      [ContentType |-> "image/jpeg", Expires |-> "Thu, 01 Jan 2026 00:00:00 GMT",
       LastModified |-> "Wed, 01 Jan 2025 00:00:00 GMT", CacheControl |-> "max-age=60"] }
NoCustom == [defined |-> FALSE, map |-> EmptyMap]
Custom(m) == [defined |-> TRUE, map |-> m]
CustomVariants ==
    { NoCustom,
      Custom(EmptyMap),
      Custom([k \in {"X-Foo"} |-> "bar"]),
      Custom([k \in {"Content-Type", "Cache-Control"} |->
                IF k = "Content-Type" THEN "text/plain" ELSE "no-store"]),
      Custom([k \in {"Access-Control-Allow-Credentials", "Access-Control-Allow-Origin",
                     "Access-Control-Allow-Methods"} |->
                IF k = "Access-Control-Allow-Credentials" THEN "false"
                ELSE IF k = "Access-Control-Allow-Origin" THEN "https://other.example"
                ELSE "POST"]) }
Requests ==
    { [ContentType |-> m.ContentType, Expires |-> m.Expires,
       LastModified |-> m.LastModified, CacheControl |-> m.CacheControl,
       headers |-> c] : m \in MetaVariants, c \in CustomVariants }
NoRequest ==
    [ContentType |-> Undefined, Expires |-> Undefined, LastModified |-> Undefined,
     CacheControl |-> Undefined, headers |-> NoCustom]
LeanRequests ==
    { [ContentType |-> "image/png", Expires |-> Undefined, LastModified |-> Undefined,
       CacheControl |-> "max-age=31536000,public", headers |-> NoCustom] }

\* Base64 strings the processor may return.
Payloads == {"iVBORw0KGgo=", "/9j/4AAQ"}
LeanPayloads == {"iVBORw0KGgo="}

\* Failures the parser or the processor may throw: the list of the thrown
\* object's own enumerable properties, in insertion order.
NumProp(n, v) == [name |-> n, isNum |-> TRUE, num |-> v, str |-> ""]
StrProp(n, v) == [name |-> n, isNum |-> FALSE, num |-> 0, str |-> v]
ErrNotFound ==
    << NumProp("status", 404), StrProp("code", "NoSuchKey"),
       StrProp("message", "The image does not exist.") >>
ErrBadRequest ==
    << NumProp("status", 400), StrProp("code", "DecodeRequest::CannotDecodeRequest"),
       StrProp("message", "The image request could not be decoded.") >>
\* An AWS SDK error: statusCode, but no `status` property.
ErrSdk ==
    << StrProp("message", "Access Denied"), StrProp("code", "AccessDenied"),
       NumProp("statusCode", 403) >>
\* A native Error (TypeError ...): no own enumerable property.
ErrNative == << >>
Errors == {ErrNotFound, ErrBadRequest, ErrSdk, ErrNative}
LeanErrors == {ErrNotFound}
NoError == << StrProp("<none>", "") >>

\* Objects the fallback getObject may return.
Objects ==
    { [ContentType |-> "image/png", LastModified |-> "Mon, 02 Jun 2025 10:00:00 GMT",
       Body |-> <<137, 80, 78>>],
      [ContentType |-> "image/gif", LastModified |-> "Tue, 03 Jun 2025 10:00:00 GMT",
       Body |-> <<71, 73>>],
      [ContentType |-> Undefined, LastModified |-> Undefined, Body |-> <<255>>] }
NoObject == [ContentType |-> Undefined, LastModified |-> Undefined, Body |-> <<>>]
LeanObjects ==
    { [ContentType |-> "image/png", LastModified |-> "Mon, 02 Jun 2025 10:00:00 GMT",
       Body |-> <<137, 80, 78>>] }

\* process.env of the process.
EnvStrings(name) ==
    {Unset} \cup {EnvStr(Spaces(n)) : n \in 0..MaxWs} \cup {EnvStr(<<name>>)}
Environments ==
    [ ENABLE_SIGNATURE : {"Yes", "No"},
      ENABLE_DEFAULT_FALLBACK_IMAGE : {"Yes", "No"},
      DEFAULT_FALLBACK_IMAGE_BUCKET : EnvStrings("b"),
      DEFAULT_FALLBACK_IMAGE_KEY : EnvStrings("k"),
      CORS_ENABLED : {"Yes", "No"},
      CORS_ORIGIN : {"https://site.example"} ]
LeanEnvironments ==
    [ ENABLE_SIGNATURE : {"Yes", "No"},
      ENABLE_DEFAULT_FALLBACK_IMAGE : {"Yes", "No"},
      DEFAULT_FALLBACK_IMAGE_BUCKET : {EnvStr(<<"b">>)},
      DEFAULT_FALLBACK_IMAGE_KEY : {EnvStr(<<"k">>)},
      CORS_ENABLED : {"Yes"},
      CORS_ORIGIN : {"https://site.example"} ]

\* ------------------------------------------------------------- conversions
B64Alphabet ==
    << "A","B","C","D","E","F","G","H","I","J","K","L","M","N","O","P",
       "Q","R","S","T","U","V","W","X","Y","Z","a","b","c","d","e","f",
       "g","h","i","j","k","l","m","n","o","p","q","r","s","t","u","v",
       "w","x","y","z","0","1","2","3","4","5","6","7","8","9","+","/" >>
B64Char(n) == B64Alphabet[n + 1]

\* Buffer.prototype.toString('base64') on a sequence of bytes (index.js:69).
RECURSIVE Base64(_)
Base64(b) ==
    IF Len(b) = 0 THEN ""
    ELSE IF Len(b) = 1 THEN
        B64Char(b[1] \div 4) \o B64Char((b[1] % 4) * 16) \o "=="
    ELSE IF Len(b) = 2 THEN
        B64Char(b[1] \div 4) \o B64Char((b[1] % 4) * 16 + b[2] \div 16)
            \o B64Char((b[2] % 16) * 4) \o "="
    ELSE
        B64Char(b[1] \div 4) \o B64Char((b[1] % 4) * 16 + b[2] \div 16)
            \o B64Char((b[2] % 16) * 4 + b[3] \div 64) \o B64Char(b[3] % 64)
            \o Base64(SubSeq(b, 4, Len(b)))

\* JSON.stringify of an object given as its own enumerable properties
\* (index.js:81, 88).
JsonProp(p) ==
    "\"" \o p.name \o "\":" \o
        (IF p.isNum THEN ToString(p.num) ELSE "\"" \o p.str \o "\"")
RECURSIVE JsonProps(_)
JsonProps(ps) ==
    IF ps = <<>> THEN ""
    ELSE IF Len(ps) = 1 THEN JsonProp(ps[1])
    ELSE JsonProp(ps[1]) \o "," \o JsonProps(Tail(ps))
JSONstringify(ps) == "{" \o JsonProps(ps) \o "}"

\* err.status: the value of the property, 0 standing for an absent one (both
\* are falsy in `err.status ? ... : ...`).
ErrStatus(err) ==
    IF \E n \in 1..Len(err) : err[n].name = "status" /\ err[n].isNum
    THEN err[CHOOSE n \in 1..Len(err) : err[n].name = "status" /\ err[n].isNum].num
    ELSE 0
HasStatus(err) == ErrStatus(err) # 0

\* The literal of index.js:88.
InternalError ==
    << StrProp("message", "Internal error. Please contact the system administrator."),
       StrProp("code", "InternalError"), NumProp("status", 500) >>

\* ------------------------------------------------------------------ state
VARIABLES
    env,            \* process.env, fixed for the life of the process
    concurrency,    \* activations the host runs at once (1: one event at a time)
    secretKey,      \* this.secretKey, process-wide
    pc,             \* per activation: where the handler is suspended
    event,          \* per activation: the inbound event
    local,          \* per activation: the handler's local bindings
    calls,          \* per activation: external calls issued so far
    response,       \* per activation: the value the handler's promise resolved with
    invocations,    \* events delivered so far
    secretWrites,   \* assignments to this.secretKey so far
    fetchOk,        \* secret-store fetches that succeeded so far
    fetchFailed,    \* secret-store fetches that failed so far
    overlap         \* has an activation started while another was in flight?

vars == << env, concurrency, secretKey, pc, event, local, calls, response,
           invocations, secretWrites, fetchOk, fetchFailed, overlap >>

InFlightPcs == {"ssmPending", "ensureResolved", "setupPending", "processPending",
                "s3Pending"}
InFlight(i) == pc[i] \in InFlightPcs

NoResponse ==
    [statusCode |-> 0, isBase64Encoded |-> FALSE, headers |-> EmptyMap, body |-> Undefined]
FreshLocal ==
    [isAlb |-> FALSE, secretArg |-> Undefined, ssmResponse |-> Undefined,
     request |-> NoRequest, processedRequest |-> Undefined,
     err |-> NoError, fallback |-> "none", defaultFallbackImage |-> NoObject]
NoCalls == [ssm |-> 0, setup |-> 0, process |-> 0, s3 |-> 0]

\* ------------------------------------------------- the program's functions
\* Variant: only the presence of event.requestContext is tested.
IsAlbAnyContext(ev) == ev # "noContext"

\* index.js:21  event.requestContext && event.requestContext.hasOwnProperty('elb')
\* (an undefined result takes the default isAlb = false of getResponseHeaders).
IsAlb(ev) == ev = "elb"

\* Variant: Access-Control-Allow-Origin is set whatever CORS_ENABLED says.
getResponseHeadersCorsAlways(isErr, isAlb) ==
    LET h0 == [k \in {"Access-Control-Allow-Methods", "Access-Control-Allow-Headers"} |->
                 IF k = "Access-Control-Allow-Methods" THEN "GET"
                 ELSE "Content-Type, Authorization"]
        h1 == IF ~isAlb THEN Put(h0, "Access-Control-Allow-Credentials", JsTrue) ELSE h0
        h2 == Put(h1, "Access-Control-Allow-Origin", env.CORS_ORIGIN)
        h3 == IF isErr THEN Put(h2, "Content-Type", "application/json") ELSE h2
    IN  h3

\* Variant: the isErr branch of index.js:113-115 is missing.
getResponseHeadersNoJson(isErr, isAlb) ==
    LET corsEnabled == env.CORS_ENABLED = "Yes"
        h0 == [k \in {"Access-Control-Allow-Methods", "Access-Control-Allow-Headers"} |->
                 IF k = "Access-Control-Allow-Methods" THEN "GET"
                 ELSE "Content-Type, Authorization"]
        h1 == IF ~isAlb THEN Put(h0, "Access-Control-Allow-Credentials", JsTrue) ELSE h0
        h2 == IF corsEnabled THEN Put(h1, "Access-Control-Allow-Origin", env.CORS_ORIGIN)
              ELSE h1
    IN  h2

\* index.js:101-117
getResponseHeaders(isErr, isAlb) ==
    LET corsEnabled == env.CORS_ENABLED = "Yes"
        h0 == [k \in {"Access-Control-Allow-Methods", "Access-Control-Allow-Headers"} |->
                 IF k = "Access-Control-Allow-Methods" THEN "GET"
                 ELSE "Content-Type, Authorization"]
        h1 == IF ~isAlb THEN Put(h0, "Access-Control-Allow-Credentials", JsTrue) ELSE h0
        h2 == IF corsEnabled THEN Put(h1, "Access-Control-Allow-Origin", env.CORS_ORIGIN)
              ELSE h1
        h3 == IF isErr THEN Put(h2, "Content-Type", "application/json") ELSE h2
    IN  h3

\* Variant: the test reads the module variable `secretKey` of index.js:12, which
\* is never assigned, instead of this.secretKey.
SecretLoadedModuleVar == Truthy(Undefined)

\* index.js:123  if (!!this.secretKey) return;
SecretLoaded == Truthy(secretKey)

\* Variant: the configuration test of index.js:125 is missing.
SignatureCheckMissing == TRUE

\* index.js:125  if (process.env.ENABLE_SIGNATURE !== 'Yes') return;
SignatureEnabled == env.ENABLE_SIGNATURE = "Yes"

\* index.js:51-55
FallbackConfigured ==
    /\ env.ENABLE_DEFAULT_FALLBACK_IMAGE = "Yes"
    /\ EnvNonBlank(env.DEFAULT_FALLBACK_IMAGE_BUCKET)
    /\ EnvNonBlank(env.DEFAULT_FALLBACK_IMAGE_KEY)

\* Variant: the response does not mark its body as base64.
SuccessResponseNotEncoded(request, processedRequest, isAlb) ==
    LET h0 == getResponseHeaders(FALSE, isAlb)
        h1 == Put(h0, "Content-Type", request.ContentType)
        h2 == Put(h1, "Expires", request.Expires)
        h3 == Put(h2, "Last-Modified", request.LastModified)
        h4 == Put(h3, "Cache-Control", request.CacheControl)
        h5 == IF request.headers.defined THEN Overlay(h4, request.headers.map) ELSE h4
    IN  [statusCode |-> 200, isBase64Encoded |-> FALSE, headers |-> h5,
         body |-> processedRequest]

\* Variant: the custom headers are applied before the request's metadata.
SuccessResponseCustomFirst(request, processedRequest, isAlb) ==
    LET h0 == getResponseHeaders(FALSE, isAlb)
        h1 == IF request.headers.defined THEN Overlay(h0, request.headers.map) ELSE h0
        h2 == Put(h1, "Content-Type", request.ContentType)
        h3 == Put(h2, "Expires", request.Expires)
        h4 == Put(h3, "Last-Modified", request.LastModified)
        h5 == Put(h4, "Cache-Control", request.CacheControl)
    IN  [statusCode |-> 200, isBase64Encoded |-> TRUE, headers |-> h5,
         body |-> processedRequest]

\* index.js:28-46
SuccessResponse(request, processedRequest, isAlb) ==
    LET h0 == getResponseHeaders(FALSE, isAlb)
        h1 == Put(h0, "Content-Type", request.ContentType)
        h2 == Put(h1, "Expires", request.Expires)
        h3 == Put(h2, "Last-Modified", request.LastModified)
        h4 == Put(h3, "Cache-Control", request.CacheControl)
        h5 == IF request.headers.defined THEN Overlay(h4, request.headers.map) ELSE h4
    IN  [statusCode |-> 200, isBase64Encoded |-> TRUE, headers |-> h5,
         body |-> processedRequest]

\* Variant: the fallback image is returned with status 200 instead of the
\* failure's status.
FallbackImageResponseOk(err, defaultFallbackImage, isAlb) ==
    LET h0 == getResponseHeaders(FALSE, isAlb)
        h1 == Put(h0, "Content-Type", defaultFallbackImage.ContentType)
        h2 == Put(h1, "Last-Modified", defaultFallbackImage.LastModified)
        h3 == Put(h2, "Cache-Control", "max-age=31536000,public")
    IN  [statusCode |-> 200, isBase64Encoded |-> TRUE, headers |-> h3,
         body |-> Base64(defaultFallbackImage.Body)]

\* index.js:60-70
FallbackImageResponse(err, defaultFallbackImage, isAlb) ==
    LET h0 == getResponseHeaders(FALSE, isAlb)
        h1 == Put(h0, "Content-Type", defaultFallbackImage.ContentType)
        h2 == Put(h1, "Last-Modified", defaultFallbackImage.LastModified)
        h3 == Put(h2, "Cache-Control", "max-age=31536000,public")
    IN  [statusCode |-> IF HasStatus(err) THEN ErrStatus(err) ELSE 500,
         isBase64Encoded |-> TRUE, headers |-> h3,
         body |-> Base64(defaultFallbackImage.Body)]

\* Variant: the branch on err.status is missing; every failure is answered with
\* the internal error.
ErrorResponseAlwaysInternal(err, isAlb) ==
    [statusCode |-> 500, isBase64Encoded |-> FALSE,
     headers |-> getResponseHeaders(TRUE, isAlb), body |-> JSONstringify(InternalError)]

\* Variant: the error body also carries the cached secret.
ErrorResponseWithSecret(err, isAlb) ==
    [statusCode |-> IF HasStatus(err) THEN ErrStatus(err) ELSE 500,
     isBase64Encoded |-> FALSE,
     headers |-> getResponseHeaders(TRUE, isAlb),
     body |-> JSONstringify((IF HasStatus(err) THEN err ELSE InternalError)
                               \o << StrProp("secretKey", secretKey) >>)]

\* index.js:76-90
ErrorResponse(err, isAlb) ==
    IF HasStatus(err)
    THEN [statusCode |-> ErrStatus(err), isBase64Encoded |-> FALSE,
          headers |-> getResponseHeaders(TRUE, isAlb), body |-> JSONstringify(err)]
    ELSE [statusCode |-> 500, isBase64Encoded |-> FALSE,
          headers |-> getResponseHeaders(TRUE, isAlb), body |-> JSONstringify(InternalError)]

\* ----------------------------------------------------------------- Init
InitWith(envs, level) ==
    /\ env \in envs
    /\ concurrency = level
    /\ secretKey = Undefined
    /\ pc = [i \in Slots |-> "idle"]
    /\ event = [i \in Slots |-> "none"]
    /\ local = [i \in Slots |-> FreshLocal]
    /\ calls = [i \in Slots |-> NoCalls]
    /\ response = [i \in Slots |-> NoResponse]
    /\ invocations = 0
    /\ secretWrites = 0
    /\ fetchOk = 0
    /\ fetchFailed = 0
    /\ overlap = FALSE

\* The host hands the process one event at a time.
Init == InitWith(Environments, 1)
\* The host runs up to MaxConcurrency activations at once.
InitConcurrent == InitWith(LeanEnvironments, MaxConcurrency)

\* ---------------------------------------------------------------- actions
\* index.js:14-17 and 122-128: the handler is entered and runs the synchronous
\* part of ensureSecretKeyLoaded, up to the first await.
HandlerStart(i, ev) ==
    /\ i <= concurrency
    /\ pc[i] \in {"idle", "returned", "rejected"}
    /\ invocations < MaxInvocations
    /\ Cardinality({j \in Slots : InFlight(j)}) < concurrency
    /\ invocations' = invocations + 1
    /\ overlap' = (overlap \/ \E j \in Slots \ {i} : InFlight(j))
    /\ event' = [event EXCEPT ![i] = ev]
    /\ local' = [local EXCEPT ![i] = FreshLocal]
    /\ response' = [response EXCEPT ![i] = NoResponse]
    /\ IF SecretLoaded \/ ~SignatureEnabled
       THEN /\ pc' = [pc EXCEPT ![i] = "ensureResolved"]
            /\ calls' = [calls EXCEPT ![i] = NoCalls]
       ELSE /\ pc' = [pc EXCEPT ![i] = "ssmPending"]
            /\ calls' = [calls EXCEPT ![i] = [NoCalls EXCEPT !.ssm = 1]]
    /\ UNCHANGED << env, concurrency, secretKey, secretWrites, fetchOk, fetchFailed >>

\* index.js:128-129: getParameter resolves; the value is stored.
SecretFetchSucceeds(i, value) ==
    /\ pc[i] = "ssmPending"
    /\ secretKey' = value
    /\ secretWrites' = secretWrites + 1
    /\ fetchOk' = fetchOk + 1
    /\ local' = [local EXCEPT ![i].ssmResponse = value]
    /\ pc' = [pc EXCEPT ![i] = "ensureResolved"]
    /\ UNCHANGED << env, concurrency, event, calls, response, invocations,
                    fetchFailed, overlap >>

\* Variant: the catch block of index.js:130-133 logs the error and does not
\* rethrow it, so ensureSecretKeyLoaded returns normally.
SecretFetchFailsSwallowed(i) ==
    /\ pc[i] = "ssmPending"
    /\ fetchFailed' = fetchFailed + 1
    /\ pc' = [pc EXCEPT ![i] = "ensureResolved"]
    /\ UNCHANGED << env, concurrency, secretKey, event, local, calls, response,
                    invocations, secretWrites, fetchOk, overlap >>

\* index.js:130-133 and 17: getParameter rejects; ensureSecretKeyLoaded rethrows,
\* and the handler's await, which is outside its try block, rejects the
\* handler's promise.
SecretFetchFails(i) ==
    /\ pc[i] = "ssmPending"
    /\ fetchFailed' = fetchFailed + 1
    /\ pc' = [pc EXCEPT ![i] = "rejected"]
    /\ UNCHANGED << env, concurrency, secretKey, event, local, calls, response,
                    invocations, secretWrites, fetchOk, overlap >>

\* Variant: the parser is built with the module variable `secretKey` of
\* index.js:12, which is never assigned.
ParserCallModuleVar(i) ==
    /\ pc[i] = "ensureResolved"
    /\ local' = [local EXCEPT ![i].secretArg = Undefined,
                              ![i].isAlb = IsAlb(event[i])]
    /\ calls' = [calls EXCEPT ![i].setup = @ + 1]
    /\ pc' = [pc EXCEPT ![i] = "setupPending"]
    /\ UNCHANGED << env, concurrency, secretKey, event, response, invocations,
                    secretWrites, fetchOk, fetchFailed, overlap >>

\* index.js:19-24: the handler resumes after `await ensureSecretKeyLoaded()`,
\* builds the parser with the secret it reads now, and calls setup.
ParserCall(i) ==
    /\ pc[i] = "ensureResolved"
    /\ local' = [local EXCEPT ![i].secretArg = secretKey,
                              ![i].isAlb = IsAlb(event[i])]
    /\ calls' = [calls EXCEPT ![i].setup = @ + 1]
    /\ pc' = [pc EXCEPT ![i] = "setupPending"]
    /\ UNCHANGED << env, concurrency, secretKey, event, response, invocations,
                    secretWrites, fetchOk, fetchFailed, overlap >>

\* index.js:24-27: setup resolves; process is called.
ParserSucceeds(i, request) ==
    /\ pc[i] = "setupPending"
    /\ local' = [local EXCEPT ![i].request = request]
    /\ calls' = [calls EXCEPT ![i].process = @ + 1]
    /\ pc' = [pc EXCEPT ![i] = "processPending"]
    /\ UNCHANGED << env, concurrency, secretKey, event, response, invocations,
                    secretWrites, fetchOk, fetchFailed, overlap >>

\* index.js:27-46: process resolves; the success response is returned.
ProcessorSucceeds(i, processedRequest) ==
    /\ pc[i] = "processPending"
    /\ local' = [local EXCEPT ![i].processedRequest = processedRequest]
    /\ response' = [response EXCEPT ![i] =
            SuccessResponse(local[i].request, processedRequest, local[i].isAlb)]
    /\ pc' = [pc EXCEPT ![i] = "returned"]
    /\ UNCHANGED << env, concurrency, secretKey, event, calls, invocations,
                    secretWrites, fetchOk, fetchFailed, overlap >>

\* index.js:47-59 and 76-90: the catch block, up to the fallback getObject when
\* the fallback is configured, else to the returned error response.  The try
\* block's `request` is out of scope here.
Catch(i, err) ==
    /\ IF FallbackConfigured
       THEN /\ local' = [local EXCEPT ![i].err = err, ![i].fallback = "pending",
                                      ![i].request = NoRequest]
            /\ calls' = [calls EXCEPT ![i].s3 = @ + 1]
            /\ pc' = [pc EXCEPT ![i] = "s3Pending"]
            /\ UNCHANGED response
       ELSE /\ local' = [local EXCEPT ![i].err = err, ![i].fallback = "skipped",
                                      ![i].request = NoRequest]
            /\ response' = [response EXCEPT ![i] = ErrorResponse(err, local[i].isAlb)]
            /\ pc' = [pc EXCEPT ![i] = "returned"]
            /\ UNCHANGED calls
    /\ UNCHANGED << env, concurrency, secretKey, event, invocations,
                    secretWrites, fetchOk, fetchFailed, overlap >>

\* Variant: the try block covers only setup; after its failure is handled the
\* processor is still called.
ParserFailsContinues(i, err) ==
    /\ pc[i] = "setupPending"
    /\ local' = [local EXCEPT ![i].err = err]
    /\ calls' = [calls EXCEPT ![i].process = @ + 1]
    /\ pc' = [pc EXCEPT ![i] = "processPending"]
    /\ UNCHANGED << env, concurrency, secretKey, event, response, invocations,
                    secretWrites, fetchOk, fetchFailed, overlap >>

\* index.js:24, 47: setup rejects.
ParserFails(i, err) ==
    /\ pc[i] = "setupPending"
    /\ Catch(i, err)

\* index.js:27, 47: process rejects.
ProcessorFails(i, err) ==
    /\ pc[i] = "processPending"
    /\ Catch(i, err)

\* index.js:59-70: the fallback getObject resolves; the fallback image is returned.
FallbackFetchSucceeds(i, defaultFallbackImage) ==
    /\ pc[i] = "s3Pending"
    /\ local' = [local EXCEPT ![i].fallback = "ok",
                              ![i].defaultFallbackImage = defaultFallbackImage]
    /\ response' = [response EXCEPT ![i] =
            FallbackImageResponse(local[i].err, defaultFallbackImage, local[i].isAlb)]
    /\ pc' = [pc EXCEPT ![i] = "returned"]
    /\ UNCHANGED << env, concurrency, secretKey, event, calls, invocations,
                    secretWrites, fetchOk, fetchFailed, overlap >>

\* Variant: a failed fallback fetch is issued again.
FallbackFetchFailsRetry(i) ==
    /\ pc[i] = "s3Pending"
    /\ calls' = [calls EXCEPT ![i].s3 = @ + 1]
    /\ UNCHANGED << env, concurrency, secretKey, pc, event, local, response, invocations,
                    secretWrites, fetchOk, fetchFailed, overlap >>

\* Variant: after a failed fallback fetch the original failure is dropped and
\* the internal error is returned.
FallbackFetchFailsInternal(i) ==
    /\ pc[i] = "s3Pending"
    /\ local' = [local EXCEPT ![i].fallback = "failed"]
    /\ response' = [response EXCEPT ![i] =
            ErrorResponseAlwaysInternal(local[i].err, local[i].isAlb)]
    /\ pc' = [pc EXCEPT ![i] = "returned"]
    /\ UNCHANGED << env, concurrency, secretKey, event, calls, invocations,
                    secretWrites, fetchOk, fetchFailed, overlap >>

\* Variant: the inner try of index.js:56-73 is missing, so the getObject
\* rejection leaves the handler.
FallbackFetchFailsRaises(i) ==
    /\ pc[i] = "s3Pending"
    /\ local' = [local EXCEPT ![i].fallback = "failed"]
    /\ pc' = [pc EXCEPT ![i] = "rejected"]
    /\ UNCHANGED << env, concurrency, secretKey, event, calls, response, invocations,
                    secretWrites, fetchOk, fetchFailed, overlap >>

\* index.js:59, 71-90: the fallback getObject rejects; the error is logged and the
\* error response is returned.
FallbackFetchFails(i) ==
    /\ pc[i] = "s3Pending"
    /\ local' = [local EXCEPT ![i].fallback = "failed"]
    /\ response' = [response EXCEPT ![i] = ErrorResponse(local[i].err, local[i].isAlb)]
    /\ pc' = [pc EXCEPT ![i] = "returned"]
    /\ UNCHANGED << env, concurrency, secretKey, event, calls, invocations,
                    secretWrites, fetchOk, fetchFailed, overlap >>

\* ---------------------------------------------------------- specifications
Next ==
    \E i \in Slots :
        \/ \E ev \in Events : HandlerStart(i, ev)
        \/ \E value \in SecretValues : SecretFetchSucceeds(i, value)
        \/ SecretFetchFails(i)
        \/ ParserCall(i)
        \/ \E request \in Requests : ParserSucceeds(i, request)
        \/ \E err \in Errors : ParserFails(i, err)
        \/ \E p \in Payloads : ProcessorSucceeds(i, p)
        \/ \E err \in Errors : ProcessorFails(i, err)
        \/ \E obj \in Objects : FallbackFetchSucceeds(i, obj)
        \/ FallbackFetchFails(i)

Spec == Init /\ [][Next]_vars

\* The same handler with interleaved activations and one representative of each
\* collaborator result.
NextConcurrent ==
    \E i \in Slots :
        \/ \E ev \in LeanEvents : HandlerStart(i, ev)
        \/ \E value \in LeanSecretValues : SecretFetchSucceeds(i, value)
        \/ SecretFetchFails(i)
        \/ ParserCall(i)
        \/ \E request \in LeanRequests : ParserSucceeds(i, request)
        \/ \E err \in LeanErrors : ParserFails(i, err)
        \/ \E p \in LeanPayloads : ProcessorSucceeds(i, p)
        \/ \E err \in LeanErrors : ProcessorFails(i, err)
        \/ \E obj \in LeanObjects : FallbackFetchSucceeds(i, obj)
        \/ FallbackFetchFails(i)

SpecConcurrent == InitConcurrent /\ [][NextConcurrent]_vars

\* ------------------------------------------------------------ properties
Started(i) == ~InFlight(i) /\ pc'[i] \in InFlightPcs

\* C1: every invocation is answered with a response; none ends as a rejected
\* (unanswered) invocation, whichever collaborator fails.
C1_EveryInvocationAnswered ==
    \A i \in Slots : pc[i] # "rejected"

\* C2: with signing enabled, concurrent calls of ensureSecretKeyLoaded write the
\* process-wide secret at most once, and all the callers that went on observed
\* the same non-empty secret.
C2_ConcurrentLoadSetsOnce ==
    env.ENABLE_SIGNATURE = "Yes" =>
        /\ secretWrites <= 1
        /\ \A i, j \in Slots :
              (calls[i].setup = 1 /\ calls[j].setup = 1) =>
                  /\ Truthy(local[i].secretArg)
                  /\ local[i].secretArg = local[j].secretArg

\* C3: once the process-wide secret holds a value, no step changes it.
C3_SecretNeverChanges ==
    [][Truthy(secretKey) => secretKey' = secretKey]_vars

\* C4: an activation that starts while the cache holds a secret issues no
\* secret-store fetch; and as long as activations have not overlapped, at most
\* one secret-store fetch has succeeded.
C4_LoadedCacheIsNotRefetched ==
    /\ [][\A i \in Slots :
            (Truthy(secretKey) /\ Started(i)) =>
                (pc'[i] = "ensureResolved" /\ calls'[i].ssm = 0)]_vars
    /\ [](~overlap => fetchOk <= 1)

C4_Witness ==
    /\ env.ENABLE_SIGNATURE = "Yes"
    /\ ~overlap
    /\ invocations = 2
    /\ fetchOk = 1
    /\ \E i \in Slots : pc[i] = "returned" /\ calls[i].ssm = 0

\* C5: a failed secret-store fetch rejects the caller and leaves the cache as it
\* was; an activation that starts afterwards with signing enabled and the cache
\* still empty issues a new fetch, and a fetch that succeeds stores the value it
\* returned.
C5_FailedLoadIsRetryable ==
    [][\A i \in Slots :
         /\ (pc[i] = "ssmPending" /\ pc'[i] # "ssmPending") =>
               \/ /\ fetchFailed' = fetchFailed + 1
                  /\ pc'[i] = "rejected"
                  /\ secretKey' = secretKey
                  /\ secretWrites' = secretWrites
               \/ /\ fetchOk' = fetchOk + 1
                  /\ fetchFailed' = fetchFailed
                  /\ secretKey' = local'[i].ssmResponse
                  /\ Truthy(secretKey')
         /\ (Started(i) /\ fetchFailed > 0 /\ env.ENABLE_SIGNATURE = "Yes"
                /\ ~Truthy(secretKey)) =>
               (pc'[i] = "ssmPending" /\ calls'[i].ssm = 1)]_vars

C5_Witness ==
    /\ ~overlap
    /\ fetchFailed >= 1
    /\ fetchOk >= 1
    /\ \E i \in Slots :
          /\ calls[i].setup = 1
          /\ Truthy(local[i].ssmResponse)
          /\ local[i].secretArg = local[i].ssmResponse

\* C6: with signature verification disabled no secret-store fetch is ever
\* issued and the process-wide secret stays as it was at process start.
C6_DisabledSigningIsNoOp ==
    env.ENABLE_SIGNATURE # "Yes" =>
        /\ secretKey = Undefined
        /\ secretWrites = 0
        /\ fetchOk = 0
        /\ fetchFailed = 0
        /\ \A i \in Slots : calls[i].ssm = 0 /\ pc[i] # "ssmPending"

C6_Witness ==
    /\ env.ENABLE_SIGNATURE # "Yes"
    /\ overlap
    /\ \E i, j \in Slots : pc[i] = "returned" /\ InFlight(j)

Succeeded(i) == pc[i] = "returned" /\ local[i].processedRequest # Undefined
MetaNames == {"Content-Type", "Expires", "Last-Modified", "Cache-Control"}
MetaValue(request, k) ==
    IF k = "Content-Type" THEN request.ContentType
    ELSE IF k = "Expires" THEN request.Expires
    ELSE IF k = "Last-Modified" THEN request.LastModified
    ELSE request.CacheControl

\* C7: when the parser and the processor both succeed, the response has status
\* 200, isBase64Encoded true and the processor's payload as body, and no
\* fallback fetch was issued.
C7_SuccessResponse ==
    \A i \in Slots :
        Succeeded(i) =>
            /\ response[i].statusCode = 200
            /\ response[i].isBase64Encoded = TRUE
            /\ response[i].body = local[i].processedRequest
            /\ response[i].body \in Payloads
            /\ calls[i].s3 = 0
            /\ calls[i].setup = 1 /\ calls[i].process = 1

C7_Witness ==
    \E i \in Slots : Succeeded(i) /\ response[i].body = "/9j/4AAQ"

\* C8: on the success path every header of the response has the custom
\* header's value if the request's custom mapping has that name, else the
\* request's metadata value if it is one of the four metadata names, else the
\* composed value; and the response has no other header.
C8_HeaderOverlayOrder ==
    \A i \in Slots :
        Succeeded(i) =>
            LET request == local[i].request
                composed == getResponseHeaders(FALSE, local[i].isAlb)
                custom == IF request.headers.defined THEN request.headers.map
                          ELSE EmptyMap
                h == response[i].headers
            IN  /\ DOMAIN h = DOMAIN composed \cup MetaNames \cup DOMAIN custom
                /\ \A k \in DOMAIN h :
                      h[k] = IF k \in DOMAIN custom THEN custom[k]
                             ELSE IF k \in MetaNames THEN MetaValue(request, k)
                             ELSE composed[k]

C8_Witness ==
    \E i \in Slots :
        /\ Succeeded(i)
        /\ local[i].request.headers.defined
        /\ "Content-Type" \in DOMAIN local[i].request.headers.map
        /\ local[i].request.ContentType = "image/jpeg"
        /\ response[i].headers["Content-Type"] = "text/plain"
        /\ response[i].headers["Expires"] = "Thu, 01 Jan 2026 00:00:00 GMT"
        /\ response[i].headers["Access-Control-Allow-Methods"] = "GET"

FailedWithoutFallbackImage(i) ==
    pc[i] = "returned" /\ local[i].fallback \in {"skipped", "failed"}

\* C9: when the parser or the processor fails and no fallback image is
\* returned, the response is a JSON error with isBase64Encoded false: with the
\* failure's status and the failure's JSON serialization as body when the
\* failure carries a status, else with status 500 and the fixed internal-error
\* body.
C9_JsonErrorResponse ==
    \A i \in Slots :
        FailedWithoutFallbackImage(i) =>
            LET err == local[i].err
                withStatus == \E n \in 1..Len(err) :
                                 err[n].name = "status" /\ err[n].num # 0
            IN  /\ response[i].isBase64Encoded = FALSE
                /\ withStatus =>
                      /\ \E n \in 1..Len(err) :
                            err[n].name = "status"
                                /\ response[i].statusCode = err[n].num
                      /\ response[i].body = JSONstringify(err)
                /\ err = ErrNotFound =>
                      response[i].body =
                          "{\"status\":404,\"code\":\"NoSuchKey\",\"message\":\"The image does not exist.\"}"
                /\ ~withStatus =>
                      /\ response[i].statusCode = 500
                      /\ response[i].body =
                            "{\"message\":\"Internal error. Please contact the system administrator.\",\"code\":\"InternalError\",\"status\":500}"

C9_Witness ==
    \E i \in Slots :
        /\ FailedWithoutFallbackImage(i)
        /\ local[i].err = ErrNotFound
        /\ response[i].statusCode = 404
        /\ calls[i].process = 1

\* C10: when the parser or the processor fails and the fallback fetch succeeds,
\* the response has the failure's status if it carries one and 500 otherwise,
\* isBase64Encoded true, the base64 of the fetched object as body,
\* Cache-Control 'max-age=31536000,public', the object's Content-Type and
\* Last-Modified, and otherwise the composer's non-error headers.
C10_FallbackImageResponse ==
    \A i \in Slots :
        (pc[i] = "returned" /\ local[i].fallback = "ok") =>
            LET err == local[i].err
                obj == local[i].defaultFallbackImage
                composed == getResponseHeaders(FALSE, local[i].isAlb)
                h == response[i].headers
                withStatus == \E n \in 1..Len(err) :
                                 err[n].name = "status" /\ err[n].num # 0
            IN  /\ withStatus =>
                      \E n \in 1..Len(err) :
                          err[n].name = "status" /\ response[i].statusCode = err[n].num
                /\ ~withStatus => response[i].statusCode = 500
                /\ response[i].isBase64Encoded = TRUE
                /\ response[i].body = Base64(obj.Body)
                /\ obj.Body = <<137, 80, 78>> => response[i].body = "iVBO"
                /\ obj.Body = <<71, 73>> => response[i].body = "R0k="
                /\ obj.Body = <<255>> => response[i].body = "/w=="
                /\ DOMAIN h = DOMAIN composed
                                \cup {"Content-Type", "Last-Modified", "Cache-Control"}
                /\ h["Cache-Control"] = "max-age=31536000,public"
                /\ h["Content-Type"] = obj.ContentType
                /\ h["Last-Modified"] = obj.LastModified
                /\ \A k \in DOMAIN composed : h[k] = composed[k]
                /\ calls[i].s3 = 1

C10_Witness ==
    \E i \in Slots :
        /\ pc[i] = "returned"
        /\ local[i].fallback = "ok"
        /\ local[i].err = ErrNotFound
        /\ response[i].statusCode = 404
        /\ response[i].body = "R0k="

InternalErrorBody ==
    "{\"message\":\"Internal error. Please contact the system administrator.\",\"code\":\"InternalError\",\"status\":500}"
CarriesStatus(err) ==
    \E n \in 1..Len(err) : err[n].name = "status" /\ err[n].num # 0
FallbackFetchFailed(i) == pc[i] = "returned" /\ local[i].fallback = "failed"

\* C11 (as claimed): after a processing failure, with or without a status, and a
\* failed fallback fetch, the response is the fixed internal-error body with
\* status 500.
C11_FallbackFailureIsInternalError ==
    \A i \in Slots :
        FallbackFetchFailed(i) =>
            /\ response[i].statusCode = 500
            /\ response[i].body = InternalErrorBody

\* C11 (amended): after a processing failure and a failed fallback fetch, the
\* response is the fixed internal-error body with status 500 when the failure
\* carries no status, and the failure's own status with its JSON serialization
\* when it carries one.
C11_FallbackFailureFallsThrough ==
    \A i \in Slots :
        FallbackFetchFailed(i) =>
            /\ response[i].isBase64Encoded = FALSE
            /\ ~CarriesStatus(local[i].err) =>
                  /\ response[i].statusCode = 500
                  /\ response[i].body = InternalErrorBody
            /\ CarriesStatus(local[i].err) =>
                  /\ response[i].statusCode \in {400, 404}
                  /\ response[i].statusCode = ErrStatus(local[i].err)
                  /\ response[i].body = JSONstringify(local[i].err)
                  /\ response[i].body # InternalErrorBody

C11_Witness ==
    \E i \in Slots :
        /\ FallbackFetchFailed(i)
        /\ local[i].err = ErrBadRequest
        /\ response[i].statusCode = 400
        /\ calls[i].s3 = 1

\* C12: a failed fallback fetch never makes the handler raise, and the response
\* returned after it is the one returned for the same failure when the
\* fallback is skipped.
C12_FallbackFailureNotSurfaced ==
    /\ [](\A i \in Slots :
            (pc[i] = "returned" /\ local[i].fallback \in {"failed", "skipped"}) =>
                response[i] = ErrorResponse(local[i].err, local[i].isAlb))
    /\ [][\A i \in Slots :
            pc[i] = "s3Pending" =>
                /\ pc'[i] \in {"s3Pending", "returned"}
                /\ local'[i].err = local[i].err]_vars

C12_Witness ==
    \E i \in Slots :
        /\ FallbackFetchFailed(i)
        /\ local[i].err = ErrNotFound
        /\ response[i].statusCode = 404
        /\ response[i].isBase64Encoded = FALSE
        /\ "Content-Type" \in DOMAIN response[i].headers

\* Is the value unset, empty or made of whitespace only?
Blank(v) == ~v.set \/ \A n \in 1..Len(v.val) : IsWs(v.val[n])

\* C13: a fallback fetch is issued only if the fallback is enabled and the
\* bucket and the key are non-empty after trimming; with the flag off or a
\* blank bucket or key (whitespace of any length) a failure goes directly to the
\* JSON error response.
C13_FallbackOnlyWhenConfigured ==
    \A i \in Slots :
        /\ calls[i].s3 > 0 =>
              /\ env.ENABLE_DEFAULT_FALLBACK_IMAGE = "Yes"
              /\ ~Blank(env.DEFAULT_FALLBACK_IMAGE_BUCKET)
              /\ ~Blank(env.DEFAULT_FALLBACK_IMAGE_KEY)
        /\ (pc[i] = "returned" /\ local[i].err # NoError
              /\ (env.ENABLE_DEFAULT_FALLBACK_IMAGE # "Yes"
                    \/ Blank(env.DEFAULT_FALLBACK_IMAGE_BUCKET)
                    \/ Blank(env.DEFAULT_FALLBACK_IMAGE_KEY))) =>
              /\ local[i].fallback = "skipped"
              /\ response[i].isBase64Encoded = FALSE

ACAC == "Access-Control-Allow-Credentials"
ACAO == "Access-Control-Allow-Origin"
\* The custom headers of a success response, empty in the other branches.
CustomOf(i) ==
    IF Succeeded(i) /\ local[i].request.headers.defined
    THEN local[i].request.headers.map ELSE EmptyMap

\* C14 (as claimed): a response to an event with ELB request context never has
\* Access-Control-Allow-Credentials, in any branch; a response to any other
\* event always has it.
C14_CredentialsHeaderByIngress ==
    \A i \in Slots :
        pc[i] = "returned" =>
            (ACAC \in DOMAIN response[i].headers <=> event[i] # "elb")

\* C14 (amended): a response to an event with ELB request context has
\* Access-Control-Allow-Credentials only on the success path and only when the
\* Processed Request's custom headers carry that name; a response to any other
\* event always has it.
C14_CredentialsHeaderUnlessCustom ==
    \A i \in Slots :
        pc[i] = "returned" =>
            /\ event[i] = "elb" =>
                  (ACAC \in DOMAIN response[i].headers <=> ACAC \in DOMAIN CustomOf(i))
            /\ event[i] # "elb" => ACAC \in DOMAIN response[i].headers

C14_Witness ==
    \E i \in Slots :
        /\ Succeeded(i)
        /\ event[i] = "elb"
        /\ ACAC \in DOMAIN response[i].headers
        /\ response[i].headers[ACAC] = "false"

\* C15 (as claimed): in every branch the response has
\* Access-Control-Allow-Origin if and only if CORS is enabled, and then with
\* the configured origin as value.
C15_OriginHeaderIffCors ==
    \A i \in Slots :
        pc[i] = "returned" =>
            /\ ACAO \in DOMAIN response[i].headers <=> env.CORS_ENABLED = "Yes"
            /\ ACAO \in DOMAIN response[i].headers =>
                  response[i].headers[ACAO] = env.CORS_ORIGIN

\* C15 (amended): the response has Access-Control-Allow-Origin if and only if
\* CORS is enabled or, on the success path, the Processed Request's custom
\* headers carry that name; its value is the custom header's when they do and
\* the configured origin otherwise.
C15_OriginHeaderUnlessCustom ==
    \A i \in Slots :
        pc[i] = "returned" =>
            /\ ACAO \in DOMAIN response[i].headers <=>
                  (env.CORS_ENABLED = "Yes" \/ ACAO \in DOMAIN CustomOf(i))
            /\ ACAO \in DOMAIN CustomOf(i) =>
                  response[i].headers[ACAO] = CustomOf(i)[ACAO]
            /\ (env.CORS_ENABLED = "Yes" /\ ACAO \notin DOMAIN CustomOf(i)) =>
                  response[i].headers[ACAO] = env.CORS_ORIGIN

C15_Witness ==
    \E i \in Slots :
        /\ Succeeded(i)
        /\ env.CORS_ENABLED # "Yes"
        /\ ACAO \in DOMAIN response[i].headers
        /\ response[i].headers[ACAO] = "https://other.example"

\* C16: the composer in error mode yields Content-Type application/json for
\* both ingress types and both CORS settings, and every JSON error response
\* (isBase64Encoded false) carries Content-Type application/json.
C16_ErrorContentType ==
    /\ \A isAlb \in BOOLEAN :
          LET h == getResponseHeaders(TRUE, isAlb)
          IN  "Content-Type" \in DOMAIN h /\ h["Content-Type"] = "application/json"
    /\ \A i \in Slots :
          (pc[i] = "returned" /\ ~response[i].isBase64Encoded) =>
              /\ "Content-Type" \in DOMAIN response[i].headers
              /\ response[i].headers["Content-Type"] = "application/json"

C16_Witness ==
    \E i \in Slots :
        /\ pc[i] = "returned"
        /\ ~response[i].isBase64Encoded
        /\ event[i] = "elb"
        /\ env.CORS_ENABLED = "Yes"
        /\ local[i].fallback = "failed"
        /\ response[i].headers["Content-Type"] = "application/json"

\* C17: within one invocation the secret-store fetch, the parser call, the
\* processor call and the fallback fetch are each issued at most once, and the
\* step that ends a call issues none of the same kind.
C17_NoRetries ==
    /\ [](\A i \in Slots :
            /\ calls[i].ssm <= 1 /\ calls[i].setup <= 1
            /\ calls[i].process <= 1 /\ calls[i].s3 <= 1)
    /\ [][\A i \in Slots :
            /\ pc[i] = "ssmPending" => calls'[i].ssm = calls[i].ssm
            /\ pc[i] = "setupPending" => calls'[i].setup = calls[i].setup
            /\ pc[i] = "processPending" => calls'[i].process = calls[i].process
            /\ pc[i] = "s3Pending" => calls'[i].s3 = calls[i].s3]_vars

C17_Witness ==
    \E i \in Slots :
        /\ FallbackFetchFailed(i)
        /\ calls[i] = [ssm |-> 1, setup |-> 1, process |-> 1, s3 |-> 1]

\* C18: two activations with the same event and the same collaborator results
\* return the same response, whatever secret each of them read and whatever
\* the cache held when they returned.
SameInputs(i, j) ==
    /\ event[i] = event[j]
    /\ local[i].request = local[j].request
    /\ local[i].processedRequest = local[j].processedRequest
    /\ local[i].err = local[j].err
    /\ local[i].fallback = local[j].fallback
    /\ local[i].defaultFallbackImage = local[j].defaultFallbackImage
C18_ResponseIndependentOfSecret ==
    \A i, j \in Slots :
        (pc[i] = "returned" /\ pc[j] = "returned" /\ SameInputs(i, j)) =>
            response[i] = response[j]

C18_Witness ==
    \E i, j \in Slots :
        /\ i # j
        /\ pc[i] = "returned" /\ pc[j] = "returned"
        /\ SameInputs(i, j)
        /\ local[i].secretArg = "k1" /\ local[j].secretArg = "k2"
        /\ local[i].fallback = "failed"
        /\ ~response[i].isBase64Encoded

\* C19: the parser is called only once ensureSecretKeyLoaded has returned, the
\* processor only by the step in which the parser succeeds, the fallback fetch
\* only by a step in which the parser or the processor fails, and a response
\* is returned only by the step that ends the last call issued.
C19_StepOrder ==
    [][\A i \in Slots :
         /\ calls'[i].setup > calls[i].setup =>
               /\ pc[i] = "ensureResolved"
               /\ calls[i].ssm = 1 => Truthy(local[i].ssmResponse)
               /\ calls[i].process = 0 /\ calls[i].s3 = 0
         /\ calls'[i].process > calls[i].process =>
               /\ pc[i] = "setupPending"
               /\ calls[i].setup = 1
               /\ local'[i].request \in Requests
               /\ local'[i].err = NoError
         /\ calls'[i].s3 > calls[i].s3 =>
               /\ pc[i] \in {"setupPending", "processPending"}
               /\ local[i].err = NoError
               /\ local'[i].err \in Errors
         /\ (pc[i] # "returned" /\ pc'[i] = "returned") =>
               \/ pc[i] = "processPending" /\ calls[i].s3 = 0
               \/ pc[i] = "setupPending" /\ calls[i].process = 0 /\ calls[i].s3 = 0
               \/ pc[i] = "s3Pending" /\ calls[i].s3 = 1]_vars

C19_Witness ==
    \E i \in Slots :
        /\ pc[i] = "returned"
        /\ local[i].fallback = "ok"
        /\ calls[i] = [ssm |-> 1, setup |-> 1, process |-> 1, s3 |-> 1]

\* C20: with signing enabled the parser is never built with an absent secret:
\* an activation whose secret fetch failed calls neither the parser nor the
\* processor, and the secret handed to the parser is the cache's value at the
\* moment of the call.
C20_ParserGetsLoadedSecret ==
    /\ [](env.ENABLE_SIGNATURE = "Yes" =>
            \A i \in Slots :
                /\ calls[i].setup > 0 => Truthy(local[i].secretArg)
                /\ pc[i] = "rejected" =>
                      calls[i].setup = 0 /\ calls[i].process = 0)
    /\ [][\A i \in Slots :
            calls'[i].setup > calls[i].setup =>
                local'[i].secretArg = secretKey]_vars

C20_Witness ==
    \E i, j \in Slots :
        /\ env.ENABLE_SIGNATURE = "Yes"
        /\ pc[i] = "rejected" /\ calls[i].ssm = 1
        /\ calls[j].setup = 1 /\ local[j].secretArg = "k2"

====
